---- MODULE Spec2Model ----
(***************************************************************************)
(* LumeDB (src/src/index.js): a JSON document held in memory, addressed by *)
(* dot-separated paths, written through to a main file and a backup file.  *)
(*                                                                         *)
(* A path string is represented by the list of its segments: split('.')    *)
(* is a bijection between strings and non-empty lists of dot-free          *)
(* segments.  Property names are drawn from ordinary keys and array       *)
(* indices; inherited names (constructor, length, ...) are outside the    *)
(* key universe.  Strings have at most one character.                      *)
(***************************************************************************)
EXTENDS Integers, Sequences, FiniteSets, TLC

(***************************************************************************)
(* JavaScript values.  An array keeps its elements (a hole is Undefined)   *)
(* and its non-index properties apart: JSON.stringify writes only the      *)
(* former.                                                                 *)
(***************************************************************************)
Undefined == [t |-> "undef"]
Null == [t |-> "null"]
Num(n) == [t |-> "num", n |-> n]
Str(s) == [t |-> "str", s |-> s]
Bool(b) == [t |-> "bool", b |-> b]
Map(f) == [t |-> "map", kv |-> f]
Arr(e, p) == [t |-> "seq", el |-> e, pr |-> p]
NoProps == [k \in {} |-> Undefined]
EmptyMap == Map(NoProps)
EmptyArr == Arr(<<>>, NoProps)

IsMap(x) == x.t = "map"
IsArray(x) == x.t = "seq"
IsObject(x) == x.t \in {"map", "seq"}
IsNullish(x) == x.t \in {"undef", "null"}

\* ToBoolean, as `current && ...` and `x || []` apply it.
Truthy(x) ==
    CASE x.t = "undef" -> FALSE
      [] x.t = "null" -> FALSE
      [] x.t = "num" -> x.n # 0
      [] x.t = "str" -> x.s # ""
      [] x.t = "bool" -> x.b
      [] OTHER -> TRUE

\* Canonical array-index property names, and the names of negative indices.
IndexKeys == <<"0", "1", "2", "3", "4", "5">>
NegativeKeys == <<"-1", "-2", "-3">>
IsIndex(key) == \E i \in DOMAIN IndexKeys : IndexKeys[i] = key
IndexOf(key) == (CHOOSE i \in DOMAIN IndexKeys : IndexKeys[i] = key) - 1
\* The property name an integer index converts to.
KeyOf(i) == IF i >= 0 THEN IndexKeys[i + 1] ELSE NegativeKeys[0 - i]
StrLen(s) == IF s = "" THEN 0 ELSE 1

\* x[key] for a value x that is neither null nor undefined.
Prop(x, key) ==
    CASE x.t = "map" -> IF key \in DOMAIN x.kv THEN x.kv[key] ELSE Undefined
      [] x.t = "seq" ->
            IF IsIndex(key)
            THEN IF IndexOf(key) < Len(x.el) THEN x.el[IndexOf(key) + 1] ELSE Undefined
            ELSE IF key \in DOMAIN x.pr THEN x.pr[key] ELSE Undefined
      [] x.t = "str" ->
            IF IsIndex(key) /\ IndexOf(key) < StrLen(x.s) THEN x ELSE Undefined
      [] OTHER -> Undefined

\* `key in x` for an object x.
In(key, x) ==
    IF x.t = "map" THEN key \in DOMAIN x.kv
    ELSE IF IsIndex(key)
         THEN IndexOf(key) < Len(x.el) /\ x.el[IndexOf(key) + 1] # Undefined
         ELSE key \in DOMAIN x.pr

\* x[key] = value on an object x.
Assign(x, key, value) ==
    IF x.t = "map"
    THEN Map([k \in DOMAIN x.kv \cup {key} |-> IF k = key THEN value ELSE x.kv[k]])
    ELSE IF IsIndex(key)
         THEN LET i == IndexOf(key)
              IN Arr([j \in 1..(IF i < Len(x.el) THEN Len(x.el) ELSE i + 1) |->
                        IF j = i + 1 THEN value
                        ELSE IF j <= Len(x.el) THEN x.el[j] ELSE Undefined],
                     x.pr)
         ELSE Arr(x.el, [k \in DOMAIN x.pr \cup {key} |-> IF k = key THEN value ELSE x.pr[k]])

\* delete x[key] on an object x: an array index becomes a hole.
Delete(x, key) ==
    IF x.t = "map"
    THEN Map([k \in DOMAIN x.kv \ {key} |-> x.kv[k]])
    ELSE IF IsIndex(key)
         THEN IF IndexOf(key) < Len(x.el)
              THEN Arr([x.el EXCEPT ![IndexOf(key) + 1] = Undefined], x.pr)
              ELSE x
         ELSE Arr(x.el, [k \in DOMAIN x.pr \ {key} |-> x.pr[k]])

\* Object.keys(x).length for a value x that is neither null nor undefined.
OwnKeyCount(x) ==
    CASE x.t = "map" -> Cardinality(DOMAIN x.kv)
      [] x.t = "seq" ->
            Cardinality({j \in 1..Len(x.el) : x.el[j] # Undefined})
                + Cardinality(DOMAIN x.pr)
      [] x.t = "str" -> StrLen(x.s)
      [] OTHER -> 0

Front(s) == SubSeq(s, 1, Len(s) - 1)
Last(s) == s[Len(s)]
Reverse(s) == [i \in 1..Len(s) |-> s[Len(s) + 1 - i]]

(***************************************************************************)
(* The path helpers.                                                       *)
(***************************************************************************)
RECURSIVE getNestedValue(_, _)
getNestedValue(obj, path) ==
    IF path = <<>> THEN obj
    ELSE getNestedValue(
            IF Truthy(obj) /\ Prop(obj, Head(path)) # Undefined
            THEN Prop(obj, Head(path)) ELSE Undefined,
            Tail(path))

\* keys.reduce(...) then target[lastKey] = value, inside the container cur.
\* `in` and the assignment raise a TypeError on anything but an object
\* (a class body is strict code).
RECURSIVE SetIn(_, _, _)
SetIn(cur, keys, value) ==
    IF ~IsObject(cur) THEN [err |-> "TypeError", doc |-> cur]
    ELSE IF Len(keys) = 1 THEN [err |-> "none", doc |-> Assign(cur, keys[1], value)]
    ELSE LET key == Head(keys)
             c1 == IF In(key, cur) THEN cur ELSE Assign(cur, key, EmptyMap)
             r == SetIn(Prop(c1, key), Tail(keys), value)
         IN [err |-> r.err, doc |-> Assign(c1, key, r.doc)]

setNestedValue(obj, path, value) == SetIn(obj, path, value)

\* keys.reduce((current, k) => current[k], obj): no guard, so reading a
\* property of null or undefined raises.
RECURSIVE RawGet(_, _)
RawGet(obj, keys) ==
    IF keys = <<>> THEN [err |-> "none", v |-> obj]
    ELSE IF IsNullish(obj) THEN [err |-> "TypeError", v |-> Undefined]
    ELSE RawGet(Prop(obj, Head(keys)), Tail(keys))

\* The document after the object reached by keys was mutated in place into new.
RECURSIVE ReplaceAt(_, _, _)
ReplaceAt(obj, keys, new) ==
    IF keys = <<>> THEN new
    ELSE Assign(obj, Head(keys), ReplaceAt(Prop(obj, Head(keys)), Tail(keys), new))

\* keys.slice(0, -(index + 1)) of the callback at position index.
PruneParentPath(rkeys, index) == SubSeq(rkeys, 1, Len(rkeys) - (index + 1))

\* The forEach over keys.reverse(), from position index on.  rkeys is the
\* array the callback slices: reverse() reversed keys in place.
RECURSIVE PruneFrom(_, _, _)
PruneFrom(doc, rkeys, index) ==
    IF index >= Len(rkeys) THEN [err |-> "none", doc |-> doc]
    ELSE LET key == rkeys[index + 1]
             ppath == PruneParentPath(rkeys, index)
             p == RawGet(doc, ppath)
         IN IF p.err # "none" THEN [err |-> "TypeError", doc |-> doc]
            ELSE IF ~Truthy(p.v) THEN PruneFrom(doc, rkeys, index + 1)
            ELSE IF IsNullish(Prop(p.v, key)) THEN [err |-> "TypeError", doc |-> doc]
            ELSE IF OwnKeyCount(Prop(p.v, key)) = 0 /\ IsObject(p.v)
                 THEN PruneFrom(ReplaceAt(doc, ppath, Delete(p.v, key)), rkeys, index + 1)
                 ELSE PruneFrom(doc, rkeys, index + 1)

\* Returns the document as the call leaves it, the boolean returned, and
\* the error raised (the document may already be changed when one is).
deleteNestedValue(obj, path, prune) ==
    LET keys == Front(path)
        lastKey == Last(path)
        target == getNestedValue(obj, keys)
    IN IF Truthy(target) /\ Prop(target, lastKey) # Undefined
       THEN IF ~IsObject(target)
            THEN \* delete of a string's index property: a TypeError in strict code
                 [err |-> "TypeError", doc |-> obj, ret |-> FALSE]
            ELSE LET d1 == ReplaceAt(obj, keys, Delete(target, lastKey))
                     r == IF prune THEN PruneFrom(d1, Reverse(keys), 0)
                          ELSE [err |-> "none", doc |-> d1]
                 IN [err |-> r.err, doc |-> r.doc, ret |-> r.err = "none"]
       ELSE [err |-> "none", doc |-> obj, ret |-> FALSE]

has(obj, key) == getNestedValue(obj, key) # Undefined

(***************************************************************************)
(* The array operations, up to their call of set.  Each gives the error    *)
(* raised and the array handed to set.                                     *)
(***************************************************************************)
\* this.get(key) || []
ArrayAt(obj, key) ==
    LET g == getNestedValue(obj, key) IN IF Truthy(g) THEN g ELSE EmptyArr

NotAnArray == [err |-> "Target is not an array", arr |-> EmptyArr]

pushArray(obj, key, value) ==
    LET array == ArrayAt(obj, key)
    IN IF ~IsArray(array) THEN NotAnArray
       ELSE [err |-> "none", arr |-> Arr(Append(array.el, value), array.pr)]

\* filter visits only the elements present and builds a fresh array.
RECURSIVE Filter(_, _)
Filter(el, value) ==
    IF el = <<>> THEN <<>>
    ELSE IF Head(el) = Undefined \/ Head(el) = value THEN Filter(Tail(el), value)
    ELSE <<Head(el)>> \o Filter(Tail(el), value)

unpushArray(obj, key, value) ==
    LET array == ArrayAt(obj, key)
    IN IF ~IsArray(array) THEN NotAnArray
       ELSE [err |-> "none", arr |-> Arr(Filter(array.el, value), NoProps)]

\* The start index splice(start, 1) uses: a negative start counts from the end.
SpliceStart(start, len) ==
    IF start < 0 THEN (IF len + start < 0 THEN 0 ELSE len + start) ELSE start

delByPriorityArray(obj, key, priority) ==
    LET array == ArrayAt(obj, key)
        s == SpliceStart(priority - 1, Len(array.el))
    IN IF ~IsArray(array) THEN NotAnArray
       ELSE [err |-> "none",
             arr |-> IF s >= Len(array.el) THEN array
                     ELSE Arr(SubSeq(array.el, 1, s)
                                \o SubSeq(array.el, s + 2, Len(array.el)), array.pr)]

\* array[priority - 1] = value: a negative index names an ordinary property.
setByPriorityArray(obj, key, value, priority) ==
    LET array == ArrayAt(obj, key)
    IN IF ~IsArray(array) THEN NotAnArray
       ELSE [err |-> "none", arr |-> Assign(array, KeyOf(priority - 1), value)]

(***************************************************************************)
(* Files.  A file is absent, holds text that does not parse as JSON, or    *)
(* holds the JSON text of a value at an indentation.  The order of an      *)
(* object's keys in the text is not modelled.                              *)
(***************************************************************************)
Absent == [kind |-> "absent"]
Garbage == [kind |-> "garbage"]
Json(v, indent) == [kind |-> "json", doc |-> v, indent |-> indent]

\* The value JSON.stringify writes: a hole becomes null, an array's
\* non-index properties are left out.
RECURSIVE ToJSON(_)
ToJSON(x) ==
    CASE x.t = "map" -> Map([k \in DOMAIN x.kv |-> ToJSON(x.kv[k])])
      [] x.t = "seq" ->
            Arr([j \in 1..Len(x.el) |->
                    IF x.el[j] = Undefined THEN Null ELSE ToJSON(x.el[j])], NoProps)
      [] OTHER -> x

stringifyData(d, pretty) == Json(ToJSON(d), IF pretty THEN 2 ELSE 0)
parseData(text) == text.doc
\* validateData raises 'Invalid JSON format' exactly when this is false.
validateData(text) == text.kind = "json"

createBackup(f, d, pretty) == [f EXCEPT !.backup = stringifyData(d, pretty)]

\* save() with the rename done before the validation (a mutant of save).
saveMoveFirst(f, d, pretty, corrupt) ==
    IF corrupt
    THEN [err |-> "Invalid JSON format", f |-> [f EXCEPT !.temp = Absent, !.main = Garbage]]
    ELSE [err |-> "none",
          f |-> createBackup([f EXCEPT !.temp = Absent,
                                       !.main = stringifyData(d, pretty)],
                             d, pretty)]

\* save() without the refresh of the backup (a mutant of save).
saveNoBackup(f, d, pretty, corrupt) ==
    IF corrupt
    THEN [err |-> "Invalid JSON format", f |-> [f EXCEPT !.temp = Garbage]]
    ELSE [err |-> "none",
          f |-> [f EXCEPT !.temp = Absent, !.main = stringifyData(d, pretty)]]

\* save(): corrupt says that the temp file reads back as text that does
\* not parse.  moveSync renames the temp file onto the main file.
save(f, d, pretty, corrupt) ==
    IF corrupt
    THEN [err |-> "Invalid JSON format", f |-> [f EXCEPT !.temp = Garbage]]
    ELSE [err |-> "none",
          f |-> createBackup([f EXCEPT !.temp = Absent,
                                       !.main = stringifyData(d, pretty)],
                             d, pretty)]

\* The catch block without its save() of the recovered document (a mutant
\* of loadCatch).
loadCatchNoSave(f, d, pretty) ==
    IF f.backup # Absent
    THEN IF validateData(f.backup)
         THEN [err |-> "none", data |-> parseData(f.backup), f |-> f]
         ELSE [err |-> "Invalid JSON format", data |-> d, f |-> f]
    ELSE [err |-> "none", data |-> EmptyMap, f |-> save(f, EmptyMap, pretty, FALSE).f]

\* The catch block of loadDatabase.
loadCatch(f, d, pretty) ==
    IF f.backup # Absent
    THEN IF validateData(f.backup)
         THEN [err |-> "none", data |-> parseData(f.backup),
               f |-> save(f, parseData(f.backup), pretty, FALSE).f]
         ELSE [err |-> "Invalid JSON format", data |-> d, f |-> f]
    ELSE [err |-> "none", data |-> EmptyMap, f |-> save(f, EmptyMap, pretty, FALSE).f]

\* loadDatabase() on the files f of the store's location, d being this.data.
loadDatabase(f, d, pretty) ==
    IF f.main # Absent
    THEN IF validateData(f.main)
         THEN [err |-> "none", data |-> parseData(f.main),
               f |-> createBackup(f, parseData(f.main), pretty)]
         ELSE loadCatch(f, d, pretty)
    ELSE IF f.backup # Absent
    THEN IF validateData(f.backup)
         THEN [err |-> "none", data |-> parseData(f.backup),
               f |-> save(f, parseData(f.backup), pretty, FALSE).f]
         ELSE loadCatch(f, d, pretty)
    ELSE [err |-> "none", data |-> d, f |-> save(f, d, pretty, FALSE).f]

(***************************************************************************)
(* The store.                                                              *)
(***************************************************************************)
VARIABLES
    alive,        \* the constructor returned a store
    data,         \* this.data
    readable,     \* this.readable
    noBlankData,  \* this.noBlankData
    folder,       \* this.folder
    filename,     \* this.filename
    backupTimer,  \* the delays (milliseconds) of the interval timers running
    disk,         \* the main, backup and temp file of every folder and filename
    backupInterval, \* this.backupInterval, in minutes
    crash,        \* whether the process was stopped inside an operation and
                  \* whether a later process has loaded the files since, with
                  \* the document in memory before and after that operation
    issued,       \* the async calls made so far, in the order of their issue
    pending,      \* the microtask queue: the promises of the async calls
    last,         \* the last call: its arguments, whether its temp file read back
                  \* corrupt, its outcome, and the state it started from
    ops           \* calls the behaviour may still make

vars == <<alive, data, readable, noBlankData, folder, filename, backupInterval,
          backupTimer, disk, crash, issued, pending, last, ops>>

\* Bounds of the model: the calls a behaviour makes under each
\* specification, and the largest priority passed to an array operation.
MaxOps == 2
MaxSaveOps == 3
MaxArrayOps == 1
MaxLoadOps == 2
MaxPruneOps == 1
MaxConfigOps == 3
MaxCrashOps == 3
MaxAsyncOps == 3
MaxPriority == 4

DefaultFolder == "database"
DefaultFile == "data"
DefaultInterval == 5
Folders == {DefaultFolder, "alt"}
FileNames == {DefaultFile, "other"}
Locs == Folders \X FileNames
NoFiles == [main |-> Absent, backup |-> Absent, temp |-> Absent]

Here == <<folder, filename>>
Files == disk[Here]

Call(op, key, value, n, corrupt, err, ret) ==
    [op |-> op, key |-> key, value |-> value, n |-> n, corrupt |-> corrupt,
     err |-> err, ret |-> ret, data0 |-> data, files0 |-> Files]

\* Commit with the document in memory restored when save() raises (a mutant
\* of Commit).
CommitRollback(op, key, value, n, r, corrupt) ==
    LET s == IF r.err = "none" THEN save(Files, r.doc, readable, corrupt)
             ELSE [err |-> r.err, f |-> Files]
    IN /\ alive /\ ops > 0
       /\ data' = IF s.err = "none" THEN r.doc ELSE data
       /\ disk' = [disk EXCEPT ![Here] = s.f]
       /\ last' = Call(op, key, value, n, corrupt, s.err,
                       IF s.err = "none" THEN r.ret ELSE Undefined)
       /\ ops' = ops - 1
       /\ UNCHANGED <<alive, readable, noBlankData, folder, filename>>
       /\ UNCHANGED <<backupInterval, backupTimer, crash, issued, pending>>

\* The part of a mutating call that follows the change r of the document in
\* memory: save() unless the change itself raised, then the return.
Commit(op, key, value, n, r, corrupt) ==
    LET s == IF r.err = "none" THEN save(Files, r.doc, readable, corrupt)
             ELSE [err |-> r.err, f |-> Files]
    IN /\ alive /\ ops > 0
       /\ data' = r.doc
       /\ disk' = [disk EXCEPT ![Here] = s.f]
       /\ last' = Call(op, key, value, n, corrupt, s.err,
                       IF s.err = "none" THEN r.ret ELSE Undefined)
       /\ ops' = ops - 1
       /\ UNCHANGED <<alive, readable, noBlankData, folder, filename>>
       /\ UNCHANGED <<backupInterval, backupTimer, crash, issued, pending>>

set(key, value, corrupt) ==
    LET r == setNestedValue(data, key, value)
    IN Commit("set", key, value, 0, [err |-> r.err, doc |-> r.doc, ret |-> value], corrupt)

delete(key, corrupt) ==
    LET r == deleteNestedValue(data, key, noBlankData)
    IN Commit("delete", key, Undefined, 0,
              [err |-> r.err, doc |-> r.doc, ret |-> Bool(r.ret)], corrupt)

\* The tail shared by the array operations: this.set(key, array); return array.
SetArray(op, key, value, n, a, corrupt) ==
    LET r == IF a.err = "none" THEN setNestedValue(data, key, a.arr)
             ELSE [err |-> a.err, doc |-> data]
    IN Commit(op, key, value, n, [err |-> r.err, doc |-> r.doc, ret |-> a.arr], corrupt)

push(key, value, corrupt) ==
    SetArray("push", key, value, 0, pushArray(data, key, value), corrupt)

unpush(key, value, corrupt) ==
    SetArray("unpush", key, value, 0, unpushArray(data, key, value), corrupt)

delByPriority(key, priority, corrupt) ==
    SetArray("delByPriority", key, Undefined, priority,
             delByPriorityArray(data, key, priority), corrupt)

setByPriority(key, value, priority, corrupt) ==
    SetArray("setByPriority", key, value, priority,
             setByPriorityArray(data, key, value, priority), corrupt)

deleteAll(corrupt) ==
    Commit("deleteAll", <<>>, Undefined, 0,
           [err |-> "none", doc |-> EmptyMap, ret |-> Bool(TRUE)], corrupt)

setReadable(value, corrupt) ==
    LET s == save(Files, data, value, corrupt)
    IN /\ alive /\ ops > 0
       /\ readable' = value
       /\ disk' = [disk EXCEPT ![Here] = s.f]
       /\ last' = Call("setReadable", <<>>, Bool(value), 0, corrupt, s.err, Undefined)
       /\ ops' = ops - 1
       /\ UNCHANGED <<alive, data, noBlankData, folder, filename>>
       /\ UNCHANGED <<backupInterval, backupTimer, crash, issued, pending>>

\* setFolder / setFile: re-point the paths, then initializeDatabase().
Relocate(op, fo, fi) ==
    LET r == loadDatabase(disk[<<fo, fi>>], data, readable)
    IN /\ alive /\ ops > 0
       /\ folder' = fo /\ filename' = fi
       /\ data' = r.data
       /\ disk' = [disk EXCEPT ![<<fo, fi>>] = r.f]
       /\ last' = [op |-> op, key |-> <<>>, value |-> Undefined, n |-> 0,
                   corrupt |-> FALSE, err |-> r.err, ret |-> Undefined,
                   data0 |-> data, files0 |-> disk[<<fo, fi>>]]
       /\ ops' = ops - 1
       /\ UNCHANGED <<alive, readable, noBlankData>>
       /\ UNCHANGED <<backupInterval, backupTimer, crash, issued, pending>>

setFolder(fo) == Relocate("setFolder", fo, filename)
setFile(fi) == Relocate("setFile", folder, fi)

\* The interval timer's callback: () => this.createBackup().  A timer
\* callback starts only once the microtask queue is empty.
BackupTimerFires ==
    /\ alive /\ backupTimer # <<>> /\ pending = <<>>
    /\ disk' = [disk EXCEPT ![Here] = createBackup(Files, data, readable)]
    /\ UNCHANGED <<alive, data, readable, noBlankData, folder, filename, last, ops>>
    /\ UNCHANGED <<backupInterval, backupTimer, crash, issued, pending>>

NoCrash == [phase |-> "none"]

\* startBackupInterval() without the clearInterval of the timer running (a
\* mutant of startBackupInterval).
startBackupIntervalNoClear(timers, interval) ==
    timers \o <<interval.n * 60 * 1000>>

\* startBackupInterval(): timers holds the delay in milliseconds of every
\* active interval timer, the one this.backupTimer refers to last.
startBackupInterval(timers, interval) ==
    (IF timers # <<>> THEN Front(timers) ELSE timers) \o <<interval.n * 60 * 1000>>

\* The fields new LumeDB(options) leaves on the file system d0.  The folder
\* option is not read: the store lives in the module's own database folder.
NewStore(d0, optFolder, optFile, optReadable, optNoBlankData, optInterval) ==
    LET r == loadDatabase(d0[<<DefaultFolder, optFile>>], EmptyMap, optReadable)
        interval == IF Truthy(optInterval) THEN optInterval ELSE Num(DefaultInterval)
    IN [alive |-> r.err = "none",
        data |-> r.data,
        readable |-> optReadable,
        noBlankData |-> optNoBlankData,
        folder |-> DefaultFolder,
        filename |-> optFile,
        backupInterval |-> interval,
        backupTimer |-> IF r.err = "none" THEN startBackupInterval(<<>>, interval)
                        ELSE <<>>,
        disk |-> [d0 EXCEPT ![<<DefaultFolder, optFile>>] = r.f],
        last |-> [op |-> "constructor", key |-> <<>>, value |-> Undefined, n |-> 0,
                  corrupt |-> FALSE, err |-> r.err, ret |-> Undefined,
                  data0 |-> EmptyMap, files0 |-> d0[<<DefaultFolder, optFile>>],
                  optFolder |-> optFolder, asked0 |-> d0[<<optFolder, optFile>>]]]

\* new LumeDB(options) as the first step of a behaviour of at most budget
\* calls.
constructor(d0, optFolder, optFile, optReadable, optNoBlankData, optInterval, budget) ==
    LET s == NewStore(d0, optFolder, optFile, optReadable, optNoBlankData, optInterval)
    IN /\ alive = s.alive
       /\ data = s.data
       /\ readable = s.readable
       /\ noBlankData = s.noBlankData
       /\ folder = s.folder
       /\ filename = s.filename
       /\ backupInterval = s.backupInterval
       /\ backupTimer = s.backupTimer
       /\ disk = s.disk
       /\ last = s.last
       /\ crash = NoCrash
       /\ issued = <<>>
       /\ pending = <<>>
       /\ ops = budget

\* new LumeDB(options) in a later process, the earlier one having exited or
\* been stopped: its timers are gone with it.
restart(optFolder, optFile, optReadable, optNoBlankData, optInterval) ==
    LET s == NewStore(disk, optFolder, optFile, optReadable, optNoBlankData, optInterval)
    IN /\ ops > 0
       /\ alive' = s.alive
       /\ data' = s.data
       /\ readable' = s.readable
       /\ noBlankData' = s.noBlankData
       /\ folder' = s.folder
       /\ filename' = s.filename
       /\ backupInterval' = s.backupInterval
       /\ backupTimer' = s.backupTimer
       /\ disk' = s.disk
       /\ last' = s.last
       /\ crash' = IF crash.phase = "stopped" THEN [crash EXCEPT !.phase = "recovered"]
                   ELSE NoCrash
       /\ pending' = <<>>
       /\ ops' = ops - 1
       /\ UNCHANGED issued

\* setBackupInterval(minutes).
setBackupInterval(minutes) ==
    LET bad == minutes.t # "num" \/ minutes.n <= 0
    IN /\ alive /\ ops > 0
       /\ backupInterval' = IF bad THEN backupInterval ELSE minutes
       /\ backupTimer' = IF bad THEN backupTimer
                         ELSE startBackupInterval(backupTimer, minutes)
       /\ last' = Call("setBackupInterval", <<>>, minutes, 0, FALSE,
                       IF bad THEN "Backup interval must be a positive number" ELSE "none",
                       Undefined)
       /\ ops' = ops - 1
       /\ UNCHANGED <<alive, data, readable, noBlankData, folder, filename, disk>>
       /\ UNCHANGED <<crash, issued, pending>>

\* db.noBlankData(value): the field of that name, a boolean, hides the
\* method, so the call raises "db.noBlankData is not a function".
callNoBlankData(value) ==
    /\ alive /\ ops > 0
    /\ last' = Call("noBlankData", <<>>, Bool(value), 0, FALSE, "TypeError", Undefined)
    /\ ops' = ops - 1
    /\ UNCHANGED <<alive, data, readable, noBlankData, folder, filename, disk>>
    /\ UNCHANGED <<backupInterval, backupTimer, crash, issued, pending>>

\* The document in memory after the call c: what the call reads (the array
\* operations), then what it writes.
ReadPart(d, c) ==
    CASE c.op = "push" -> pushArray(d, c.key, c.value)
      [] c.op = "unpush" -> unpushArray(d, c.key, c.value)
      [] c.op = "delByPriority" -> delByPriorityArray(d, c.key, c.n)
      [] c.op = "setByPriority" -> setByPriorityArray(d, c.key, c.value, c.n)
      [] OTHER -> [err |-> "none", arr |-> Undefined]

WritePart(d, c, a, prune) ==
    IF a.err # "none" THEN [err |-> a.err, doc |-> d, ret |-> Undefined]
    ELSE CASE c.op \in {"set", "setAsync"} ->
                LET r == setNestedValue(d, c.key, c.value)
                IN [err |-> r.err, doc |-> r.doc, ret |-> c.value]
           [] c.op \in {"delete", "deleteAsync"} ->
                LET r == deleteNestedValue(d, c.key, prune)
                IN [err |-> r.err, doc |-> r.doc, ret |-> Bool(r.ret)]
           [] c.op = "deleteAll" ->
                [err |-> "none", doc |-> EmptyMap, ret |-> Bool(TRUE)]
           [] OTHER ->
                LET r == setNestedValue(d, c.key, a.arr)
                IN [err |-> r.err, doc |-> r.doc, ret |-> a.arr]

InMemory(d, c, prune) == WritePart(d, c, ReadPart(d, c), prune)

\* The files a save() leaves when the process stops inside it: in the write
\* of the temp file, before moveSync, inside moveSync once it removed the
\* main file, before createBackup, or in the write of the backup file.  A
\* stopped write leaves text that does not parse.
SavePoints == {"temp", "validate", "remove", "rename", "backup"}
savePartial(f, d, pretty, point) ==
    LET written == [f EXCEPT !.temp = stringifyData(d, pretty)]
        moved == [f EXCEPT !.temp = Absent, !.main = stringifyData(d, pretty)]
    IN CASE point = "temp" -> [f EXCEPT !.temp = Garbage]
         [] point = "validate" -> written
         [] point = "remove" -> [written EXCEPT !.main = Absent]
         [] point = "rename" -> moved
         [] OTHER -> [moved EXCEPT !.backup = Garbage]

\* The process stops inside the save() of the call c.
stopInSave(c, point) ==
    LET r == InMemory(data, c, noBlankData)
    IN /\ alive /\ ops > 0 /\ r.err = "none"
       /\ alive' = FALSE
       /\ data' = r.doc
       /\ disk' = [disk EXCEPT ![Here] = savePartial(Files, r.doc, readable, point)]
       /\ crash' = [phase |-> "stopped", before |-> data, after |-> r.doc]
       /\ backupTimer' = <<>>
       /\ pending' = <<>>
       /\ last' = Call(c.op, c.key, c.value, c.n, FALSE, "stopped", Undefined)
       /\ ops' = ops - 1
       /\ UNCHANGED <<readable, noBlankData, folder, filename, backupInterval, issued>>

\* The process stops inside the write of a timer-fired createBackup().
stopInBackup ==
    /\ alive /\ ops > 0 /\ backupTimer # <<>> /\ pending = <<>>
    /\ alive' = FALSE
    /\ disk' = [disk EXCEPT ![Here] = [Files EXCEPT !.backup = Garbage]]
    /\ crash' = [phase |-> "stopped", before |-> data, after |-> data]
    /\ backupTimer' = <<>>
    /\ last' = Call("createBackup", <<>>, Undefined, 0, FALSE, "stopped", Undefined)
    /\ ops' = ops - 1
    /\ UNCHANGED <<data, readable, noBlankData, folder, filename, backupInterval,
                   issued, pending>>

\* An async method whose body awaits between its read and its write (a
\* mutant of Yields).
YieldsInPush(op) == op = "push"

\* Whether the body of the async method op gives up control between its
\* read of the document and its write: no body holds an await.
Yields(op) == FALSE

\* A call of an async method.  The body runs at once, up to its first
\* await if it has one; the call's promise joins the microtask queue.
issueAsync(c) ==
    LET a == ReadPart(data, c)
        r == WritePart(data, c, a, noBlankData)
        s == IF r.err = "none" THEN save(Files, r.doc, readable, FALSE)
             ELSE [err |-> r.err, f |-> Files]
        yield == Yields(c.op) /\ a.err = "none"
    IN /\ alive /\ ops > 0
       /\ issued' = Append(issued, c)
       /\ IF yield
          THEN /\ pending' = Append(pending, [call |-> c, a |-> a, rest |-> TRUE])
               /\ UNCHANGED <<data, disk>>
          ELSE /\ pending' = Append(pending, [call |-> c, a |-> a, rest |-> FALSE])
               /\ data' = r.doc
               /\ disk' = [disk EXCEPT ![Here] = s.f]
       /\ last' = Call(c.op, c.key, c.value, c.n, FALSE,
                       IF yield THEN "none" ELSE s.err,
                       IF yield \/ s.err # "none" THEN Undefined ELSE r.ret)
       /\ ops' = ops - 1
       /\ UNCHANGED <<alive, readable, noBlankData, folder, filename>>
       /\ UNCHANGED <<backupInterval, backupTimer, crash>>

\* The next microtask: the rest of a body that awaited, or the settling of
\* the promise of a body that ran to its end.
runMicrotask ==
    /\ alive /\ pending # <<>>
    /\ LET t == Head(pending)
           r == WritePart(data, t.call, t.a, noBlankData)
           s == IF r.err = "none" THEN save(Files, r.doc, readable, FALSE)
                ELSE [err |-> r.err, f |-> Files]
       IN IF t.rest
          THEN data' = r.doc /\ disk' = [disk EXCEPT ![Here] = s.f]
          ELSE UNCHANGED <<data, disk>>
    /\ pending' = Tail(pending)
    /\ UNCHANGED <<alive, readable, noBlankData, folder, filename, last, ops>>
    /\ UNCHANGED <<backupInterval, backupTimer, crash, issued>>

EmptyDisk == [l \in Locs |-> NoFiles]
DiskWith(f) == [EmptyDisk EXCEPT ![<<DefaultFolder, DefaultFile>>] = f]

(***************************************************************************)
(* Spec: the path operations on a store built in an empty folder.          *)
(***************************************************************************)
Paths == {<<"a">>, <<"b">>, <<"a", "b">>, <<"b", "b">>, <<"a", "b", "c">>, <<"a", "0">>}
Values == {Num(0), Num(1), Null, Str("s"), EmptyMap, Arr(<<Num(0), Num(1)>>, NoProps)}

Init ==
    \E b \in BOOLEAN :
        constructor(EmptyDisk, DefaultFolder, DefaultFile, FALSE, b, Undefined, MaxOps)

Next ==
    \/ \E key \in Paths, value \in Values : set(key, value, FALSE)
    \/ \E key \in Paths : delete(key, FALSE)
    \/ deleteAll(FALSE)
    \/ BackupTimerFires

Spec == Init /\ [][Next]_vars

(***************************************************************************)
(* SpecSave: every mutating call, with a temp file that may read back      *)
(* corrupt, and the backup timer.                                          *)
(***************************************************************************)
SavePaths == {<<"a">>, <<"a", "b">>}
SaveValues == {Num(1), Arr(<<Num(1)>>, NoProps)}

InitSave ==
    \E b \in BOOLEAN :
        constructor(EmptyDisk, DefaultFolder, DefaultFile, FALSE, b, Undefined, MaxSaveOps)

NextSave ==
    \/ \E key \in SavePaths, value \in SaveValues, c \in BOOLEAN : set(key, value, c)
    \/ \E key \in SavePaths, c \in BOOLEAN : delete(key, c)
    \/ \E c \in BOOLEAN : push(<<"a">>, Num(1), c)
    \/ \E c \in BOOLEAN : unpush(<<"a">>, Num(1), c)
    \/ \E n \in {0, 1}, c \in BOOLEAN : delByPriority(<<"a">>, n, c)
    \/ \E n \in {0, 2}, c \in BOOLEAN : setByPriority(<<"a">>, Num(0), n, c)
    \/ \E c \in BOOLEAN : deleteAll(c)
    \/ \E value \in BOOLEAN, c \in BOOLEAN : setReadable(value, c)
    \/ BackupTimerFires

SpecSave == InitSave /\ [][NextSave]_vars

(***************************************************************************)
(* SpecArray: the array operations on a store that loaded a document with  *)
(* a field of every kind.                                                  *)
(***************************************************************************)
ArrayDoc ==
    Map([k \in {"l", "m", "s", "e", "z", "n", "f"} |->
            CASE k = "l" -> Arr(<<Num(0), Num(1), Num(2)>>, NoProps)
              [] k = "m" -> Map([x \in {"x"} |-> Arr(<<Num(1)>>, NoProps)])
              [] k = "s" -> Str("s")
              [] k = "e" -> Str("")
              [] k = "z" -> Num(0)
              [] k = "n" -> Null
              [] OTHER -> Bool(FALSE)])
ArrayPaths == {<<"l">>, <<"m">>, <<"s">>, <<"e">>, <<"z">>, <<"n">>, <<"f">>, <<"q">>,
               <<"m", "x">>, <<"s", "k">>}
Elements == {Num(0), Num(1)}
Priorities == 0..MaxPriority

InitArray ==
    constructor(DiskWith([NoFiles EXCEPT !.main = Json(ArrayDoc, 0)]),
                DefaultFolder, DefaultFile, FALSE, FALSE, Undefined, MaxArrayOps)

NextArray ==
    \/ \E key \in ArrayPaths, value \in Elements : push(key, value, FALSE)
    \/ \E key \in ArrayPaths, value \in Elements : unpush(key, value, FALSE)
    \/ \E key \in ArrayPaths, n \in Priorities : delByPriority(key, n, FALSE)
    \/ \E key \in ArrayPaths, value \in Elements, n \in Priorities :
            setByPriority(key, value, n, FALSE)

SpecArray == InitArray /\ [][NextArray]_vars

(***************************************************************************)
(* SpecLoad: a store built on any files, then written to and re-pointed.   *)
(***************************************************************************)
SomeDoc == Map([k \in {"x"} |-> Num(1)])
Contents == {Absent, Garbage, Json(SomeDoc, 0), Json(SomeDoc, 2),
             Json(Arr(<<Num(1)>>, NoProps), 0)}
FileStates == [main : Contents, backup : Contents, temp : {Absent}]

InitLoad ==
    \E here \in FileStates, there \in FileStates, r \in BOOLEAN :
        constructor([l \in Locs |-> IF l = <<DefaultFolder, DefaultFile>> THEN here ELSE there],
                    DefaultFolder, DefaultFile, r, FALSE, Undefined, MaxLoadOps)

NextLoad ==
    \/ \E fo \in Folders : setFolder(fo)
    \/ \E fi \in FileNames : setFile(fi)
    \/ set(<<"a">>, Num(1), FALSE)
    \/ deleteAll(FALSE)
    \/ BackupTimerFires

SpecLoad == InitLoad /\ [][NextLoad]_vars

(***************************************************************************)
(* SpecPrune: one set or delete on a store that loaded a nested document,  *)
(* with and without pruning.                                               *)
(***************************************************************************)
Leaf == Map([k \in {"c"} |-> Num(1)])
Nested == Map([k \in {"b"} |-> Leaf])
PruneDocs ==
    { Map([k \in {"a"} |-> Nested]),
      Map([k \in {"a", "b"} |-> IF k = "a" THEN Nested ELSE Num(1)]),
      Map([k \in {"a", "b"} |-> IF k = "a" THEN Nested
                                ELSE Map([x \in {"b"} |-> EmptyMap])]),
      Map([k \in {"a", "c"} |-> IF k = "a" THEN Nested ELSE EmptyMap]),
      Map([k \in {"a", "b"} |-> IF k = "a" THEN Map([x \in {"b"} |-> Str("s")])
                                ELSE EmptyMap]) }
PrunePaths == {<<"a">>, <<"b">>, <<"c">>, <<"a", "b">>, <<"b", "b">>, <<"a", "c">>,
               <<"a", "b", "c">>, <<"a", "b", "0">>}
PruneValues == {Num(1), EmptyMap}

InitPrune ==
    \E d \in PruneDocs, b \in BOOLEAN :
        constructor(DiskWith([NoFiles EXCEPT !.main = Json(d, 0)]),
                    DefaultFolder, DefaultFile, FALSE, b, Undefined, MaxPruneOps)

NextPrune ==
    \/ \E key \in PrunePaths : delete(key, FALSE)
    \/ \E key \in PrunePaths, value \in PruneValues : set(key, value, FALSE)

SpecPrune == InitPrune /\ [][NextPrune]_vars

(***************************************************************************)
(* SpecConfig: the configuration of a store: its options, the backup       *)
(* interval, the pruning toggle, and a later store on the same disk.       *)
(***************************************************************************)
IntervalOptions == {Undefined, Num(0), Num(1)}
Minutes == {Num(0 - 1), Num(0), Num(1), Num(15), Str("15"), Null}

InitConfig ==
    \E fo \in Folders, i \in IntervalOptions :
        constructor(EmptyDisk, fo, DefaultFile, FALSE, FALSE, i, MaxConfigOps)

NextConfig ==
    \/ \E minutes \in Minutes : setBackupInterval(minutes)
    \/ \E value \in BOOLEAN : callNoBlankData(value)
    \/ \E fo \in Folders, i \in IntervalOptions :
            restart(fo, DefaultFile, FALSE, FALSE, i)
    \/ set(<<"a">>, Num(1), FALSE)
    \/ delete(<<"a">>, FALSE)
    \/ BackupTimerFires

SpecConfig == InitConfig /\ [][NextConfig]_vars

(***************************************************************************)
(* SpecCrash: a store whose process can stop inside a save or a backup,    *)
(* and the process that loads the files afterwards.                        *)
(***************************************************************************)
CrashDocs == {EmptyMap, Map([k \in {"a", "b"} |-> IF k = "a" THEN Nested ELSE Num(1)])}
CrashCall(op, key, value) == [op |-> op, key |-> key, value |-> value, n |-> 0]
CrashCalls ==
    {CrashCall("set", <<"x">>, Num(1)), CrashCall("delete", <<"x">>, Undefined),
     CrashCall("delete", <<"a", "b", "c">>, Undefined),
     CrashCall("deleteAll", <<>>, Undefined), CrashCall("push", <<"x">>, Num(1))}

InitCrash ==
    \E d \in CrashDocs, b \in BOOLEAN :
        constructor(DiskWith([NoFiles EXCEPT !.main = Json(d, 0)]),
                    DefaultFolder, DefaultFile, FALSE, b, Undefined, MaxCrashOps)

NextCrash ==
    \/ set(<<"x">>, Num(1), FALSE)
    \/ \E key \in {<<"x">>, <<"a", "b", "c">>} : delete(key, FALSE)
    \/ \E c \in CrashCalls, point \in SavePoints : stopInSave(c, point)
    \/ stopInBackup
    \/ \E r \in BOOLEAN : restart(DefaultFolder, DefaultFile, r, noBlankData, Undefined)
    \/ BackupTimerFires

SpecCrash == InitCrash /\ [][NextCrash]_vars

(***************************************************************************)
(* SpecAsync: async calls issued without awaiting, the microtasks they     *)
(* leave, and the backup timer.                                            *)
(***************************************************************************)
AsyncCall(op, value, n) == [op |-> op, key |-> <<"k">>, value |-> value, n |-> n]
AsyncCalls ==
    {AsyncCall("setAsync", Num(0), 0), AsyncCall("deleteAsync", Undefined, 0),
     AsyncCall("push", Num(0), 0), AsyncCall("push", Num(1), 0),
     AsyncCall("unpush", Num(0), 0), AsyncCall("setByPriority", Num(1), 1),
     AsyncCall("delByPriority", Undefined, 1)}

InitAsync ==
    \E b \in BOOLEAN :
        constructor(EmptyDisk, DefaultFolder, DefaultFile, FALSE, b, Undefined, MaxAsyncOps)

NextAsync ==
    \/ \E c \in AsyncCalls : issueAsync(c)
    \/ runMicrotask
    \/ BackupTimerFires

SpecAsync == InitAsync /\ [][NextAsync]_vars

(***************************************************************************)
(* The claims.                                                             *)
(***************************************************************************)
Loads == {"constructor", "setFolder", "setFile"}
Mutations == {"set", "delete", "deleteAll", "push", "unpush", "setByPriority",
              "delByPriority", "setReadable"}
ArrayCalls == {"push", "unpush", "setByPriority", "delByPriority"}
IsCall == ops' # ops

\* C1 (as claimed): every set(P, V) succeeds, and get(P) then returns V,
\* whatever the prefixes of P hold.
C1_RoundTrip ==
    last.op = "set" =>
        /\ last.err = "none"
        /\ getNestedValue(data, last.key) = last.value

\* C2 (as claimed): with pruning on, a delete(P) that removed the terminal
\* key leaves no empty Map at any proper prefix of P.
C2_PruningComplete ==
    (last.op = "delete" /\ noBlankData /\ has(last.data0, last.key)) =>
        /\ last.err = "none"
        /\ \A i \in 1..(Len(last.key) - 1) :
              getNestedValue(data, SubSeq(last.key, 1, i)) # EmptyMap

\* The document a load is said to end with: main if it parses, else backup
\* if it parses, else {}.
BestAvailable(f) ==
    IF validateData(f.main) THEN parseData(f.main)
    ELSE IF validateData(f.backup) THEN parseData(f.backup)
    ELSE EmptyMap

\* C3 (as claimed): construction never raises, whatever the main and the
\* backup file hold, and ends with the best available document; when
\* neither parses, {} is written as the new main file.
C3_LoadNeverFails ==
    last.op = "constructor" =>
        /\ last.err = "none"
        /\ data = BestAvailable(last.files0)
        /\ (~validateData(last.files0.main) /\ ~validateData(last.files0.backup))
              => Files.main = stringifyData(EmptyMap, readable)

\* C4: a load that finds the main file absent or unparseable and a backup
\* holding a document D ends with D in memory and the main file rewritten
\* to the serialization of D, equal to the backup.
C4_BackupRecovery ==
    (/\ last.op \in Loads
     /\ ~validateData(last.files0.main)
     /\ validateData(last.files0.backup)
     /\ IsMap(parseData(last.files0.backup))) =>
        /\ last.err = "none"
        /\ data = parseData(last.files0.backup)
        /\ Files.main = stringifyData(parseData(last.files0.backup), readable)
        /\ Files.main = Files.backup

C4_Witness ==
    /\ last.op = "constructor"
    /\ last.files0.main = Garbage
    /\ last.files0.backup = Json(SomeDoc, 2)
    /\ getNestedValue(data, <<"x">>) = Num(1)
    /\ Files.main = Json(SomeDoc, 0)
    /\ Files.backup = Files.main

\* C5: a mutating call whose save() reads the temp file back corrupt raises
\* the validation error and leaves the main and the backup file as they were.
C5_AtomicSave ==
    [][(IsCall /\ last'.corrupt /\ last'.err \notin {"TypeError", "Target is not an array"})
          => /\ last'.err = "Invalid JSON format"
             /\ Files'.main = Files.main
             /\ Files'.backup = Files.backup]_vars

C5_Witness ==
    /\ last.op = "set"
    /\ last.corrupt
    /\ last.err = "Invalid JSON format"
    /\ data # last.data0
    /\ Files.main = last.files0.main
    /\ Files.main # stringifyData(data, readable)
    /\ Files.temp = Garbage

\* C6 (as claimed): the document of a constructed store is always a Map.
C6_RootIsMap == alive => IsMap(data)

\* C7 (as claimed): a load that finds neither a main nor a backup file ends
\* with the empty document in memory and in both files.
C7_EmptyBootstrap ==
    (/\ last.op \in Loads
     /\ last.files0.main = Absent
     /\ last.files0.backup = Absent) =>
        /\ data = EmptyMap
        /\ Files.main = stringifyData(EmptyMap, readable)
        /\ Files.backup = stringifyData(EmptyMap, readable)

\* C8: after a mutating call that returned normally, and after any backup
\* timer firings that follow it, the main and the backup file both hold the
\* serialization of the document in memory.
C8_WriteThrough ==
    (last.op \in Mutations /\ last.err = "none") =>
        /\ Files.main = stringifyData(data, readable)
        /\ Files.backup = stringifyData(data, readable)

C8_Witness ==
    /\ last.op = "push"
    /\ last.err = "none"
    /\ data # last.data0
    /\ Files.main = stringifyData(data, readable)
    /\ Files.backup = Files.main
    /\ Files.main # last.files0.main

\* C9 (as claimed): an array operation on a path whose value exists and is
\* not a Sequence raises the type-mismatch error and changes neither the
\* document nor the files.
C9_TypeMismatch ==
    (/\ last.op \in ArrayCalls
     /\ has(last.data0, last.key)
     /\ ~IsArray(getNestedValue(last.data0, last.key))) =>
        /\ last.err = "Target is not an array"
        /\ data = last.data0
        /\ Files = last.files0

\* The Sequence without its element at 1-based position n.
WithoutPosition(el, n) == SubSeq(el, 1, n - 1) \o SubSeq(el, n + 1, Len(el))

\* C10 (as claimed): delByPriority(path, n) on a Sequence of length L
\* removes the element at position n when 1 <= n <= L and leaves the
\* Sequence unchanged otherwise.
C10_DelByPriority ==
    (last.op = "delByPriority" /\ IsArray(getNestedValue(last.data0, last.key))) =>
        LET old == getNestedValue(last.data0, last.key).el
            new == getNestedValue(data, last.key)
        IN /\ last.err = "none"
           /\ IsArray(new)
           /\ new.el = IF 1 <= last.n /\ last.n <= Len(old)
                       THEN WithoutPosition(old, last.n) ELSE old

\* C11 (as claimed): with either pruning setting, delete(P) returns false and
\* leaves the document alone when P is not present; otherwise it returns
\* true without raising and has(P) is false afterwards.
C11_DeleteResult ==
    last.op = "delete" =>
        IF has(last.data0, last.key)
        THEN /\ last.err = "none"
             /\ last.ret = Bool(TRUE)
             /\ ~has(data, last.key)
        ELSE /\ last.err = "none"
             /\ last.ret = Bool(FALSE)
             /\ data = last.data0

\* The descent the specification describes for get: through Maps only.
RECURSIVE MapOnlyGet(_, _)
MapOnlyGet(obj, path) ==
    IF path = <<>> THEN obj
    ELSE IF IsMap(obj) /\ In(Head(path), obj)
         THEN MapOnlyGet(Prop(obj, Head(path)), Tail(path))
         ELSE Undefined

\* C12 (as claimed): get(P) returns the stored value only by descending
\* through Maps, and is absent as soon as a segment is missing or an
\* intermediate segment holds a Sequence, a string, a number, a boolean or
\* null.
C12_GetOnlyThroughMaps ==
    \A key \in Paths : getNestedValue(data, key) = MapOnlyGet(data, key)

IsPrefix(p, q) == Len(p) <= Len(q) /\ SubSeq(q, 1, Len(p)) = p
\* q is neither an ancestor of p, nor p, nor below p.
OffPath(q, p) == ~IsPrefix(q, p) /\ ~IsPrefix(p, q)
FrameKeys == {"a", "b", "c"}
FramePaths == UNION {[1..len -> FrameKeys] : len \in 1..3}

\* C16 (as claimed): with pruning enabled, a delete(P) of a present path
\* never raises, never replaces the root, and changes no value at a path
\* that is off P, empty Maps elsewhere included.
C16_PruningFrame ==
    (last.op = "delete" /\ noBlankData /\ has(last.data0, last.key)) =>
        /\ last.err = "none"
        /\ IsMap(data)
        /\ \A q \in FramePaths :
                OffPath(q, last.key) =>
                    getNestedValue(data, q) = getNestedValue(last.data0, q)

\* C17 (as claimed): set('a.b', V) on a document whose `a` holds a number,
\* a string or a boolean raises nothing and leaves `a` a fresh Map holding
\* only b = V.
C17_ScalarOverwritten ==
    (/\ last.op = "set"
     /\ Len(last.key) = 2
     /\ getNestedValue(last.data0, <<last.key[1]>>).t \in {"num", "str", "bool"}) =>
        /\ last.err = "none"
        /\ getNestedValue(data, <<last.key[1]>>) =
                Map([k \in {last.key[2]} |-> last.value])

\* C13 (as claimed): a store constructed with a folder option that names a
\* folder holding no files starts with the empty document, whatever another
\* store wrote in another folder under the same filename.
C13_FolderIsolation ==
    (last.op = "constructor" /\ last.asked0 = NoFiles) =>
        /\ last.err = "none"
        /\ data = EmptyMap

Accepted(minutes) == minutes.t = "num" /\ minutes.n > 0
TimerInv ==
    alive => /\ Len(backupTimer) = 1
             /\ backupTimer[1] = backupInterval.n * 60 * 1000
TimerStep ==
    (IsCall /\ last'.op = "setBackupInterval") =>
        IF Accepted(last'.value)
        THEN /\ last'.err = "none"
             /\ backupInterval' = last'.value
             /\ backupTimer' = <<last'.value.n * 60 * 1000>>
        ELSE /\ last'.err = "Backup interval must be a positive number"
             /\ UNCHANGED <<backupInterval, backupTimer>>

C15_PruningToggle ==
    last.op = "noBlankData" =>
        /\ last.err = "none"
        /\ noBlankData = last.value.b

\* What get shows after a call kept its change of the document in memory.
KeepsMutation ==
    LET now == getNestedValue(data, last.key)
    IN CASE last.op = "set" -> now = last.value
         [] last.op = "delete" -> has(last.data0, last.key) => ~has(data, last.key)
         [] last.op = "deleteAll" -> data = EmptyMap
         [] last.op = "push" -> IsArray(now) /\ Last(now.el) = last.value
         [] last.op = "unpush" ->
                IsArray(now) /\ \A i \in DOMAIN now.el : now.el[i] # last.value
         [] last.op = "setByPriority" ->
                now = setByPriorityArray(last.data0, last.key, last.value, last.n).arr
         [] last.op = "delByPriority" ->
                now = delByPriorityArray(last.data0, last.key, last.n).arr
         [] OTHER -> TRUE

C19_CrashRecovery ==
    /\ crash.phase = "stopped" =>
            validateData(Files.main) \/ validateData(Files.backup)
    /\ (crash.phase = "recovered" /\ last.op = "constructor") =>
            /\ last.err = "none"
            /\ data \in {ToJSON(crash.before), ToJSON(crash.after)}

\* The calls applied one after the other, each to the end, from the
\* document d.
RECURSIVE Sequential(_, _, _)
Sequential(d, calls, prune) ==
    IF calls = <<>> THEN d
    ELSE Sequential(InMemory(d, Head(calls), prune).doc, Tail(calls), prune)

\* C20: however async calls are issued between microtasks and timer
\* callbacks, no call is left part-way (no microtask holds the write of a
\* call), the document is the one the calls give when applied one after
\* the other in the order of their issue, and a call that succeeded has
\* saved that document.
C20_NoLostUpdate ==
    /\ \A i \in DOMAIN pending : ~pending[i].rest
    /\ data = Sequential(EmptyMap, issued, noBlankData)
    /\ (last.op # "constructor" /\ last.err = "none") =>
            /\ validateData(Files.main)
            /\ parseData(Files.main) = ToJSON(data)

\* push(k, 0) and push(k, 1) issued back to back on an absent k, neither
\* promise settled yet: k holds [0, 1].
C20_Witness ==
    /\ issued = <<AsyncCall("push", Num(0), 0), AsyncCall("push", Num(1), 0)>>
    /\ Len(pending) = 2
    /\ getNestedValue(data, <<"k">>) = Arr(<<Num(0), Num(1)>>, NoProps)

====
